---- MODULE Spec2Model ----
(***************************************************************************)
(* Model of tools/make_src_dist.py: the pipeline of main(), the version    *)
(* resolution of get_version()/Version, the selection of dependencies and  *)
(* configure flags, the filter ignore_dep_src() applied by copytree, and   *)
(* the generated dist/CMakeLists.txt.                                      *)
(*                                                                         *)
(* A Python str is a sequence of one-character strings, so that `in`,      *)
(* endswith, rstrip, upper, sorted and re.search are computed on the       *)
(* characters as Python computes them.                                     *)
(***************************************************************************)
EXTENDS Integers, Sequences, FiniteSets, TLC

\* Number of consecutive runs of main() against the same build directory.
MaxRuns == 2
\* Longest content of the VERSION file drawn in SpecVersion.
MaxVersionLen == 3
\* Deepest directory, below <dep>-src, that the copytree walk descends to.
MaxDepth == 2

----------------------------------------------------------------------------
\* Python string primitives.

\* The characters used, in code point order (str comparison is by code point).
CodePoints ==
    <<"\n", " ", "-", ".", "/", "0", "1", "2", "3", "4", "5", "6", "7", "8", "9",
      "A", "B", "C", "D", "E", "F", "G", "H", "I", "J", "K", "L", "M",
      "N", "O", "P", "Q", "R", "S", "T", "U", "V", "W", "X", "Y", "Z", "_",
      "a", "b", "c", "d", "e", "f", "g", "h", "i", "j", "k", "l", "m",
      "n", "o", "p", "q", "r", "s", "t", "u", "v", "w", "x", "y", "z">>

Ord(c) == CHOOSE i \in 1..Len(CodePoints) : CodePoints[i] = c

\* str.upper() of one character: a..z map to A..Z, everything else is kept.
UpperChar(c) ==
    IF Ord(c) >= Ord("a") /\ Ord(c) <= Ord("z")
    THEN CodePoints[Ord("A") + (Ord(c) - Ord("a"))]
    ELSE c

\* str.upper()
upper(s) == [i \in 1..Len(s) |-> UpperChar(s[i])]

\* s[i:i+len(w)] == w
MatchAt(s, w, i) ==
    /\ i >= 1
    /\ i + Len(w) - 1 <= Len(s)
    /\ \A k \in 1..Len(w) : s[i + k - 1] = w[k]

\* w in s
Contains(s, w) == \E i \in 1..(Len(s) - Len(w) + 1) : MatchAt(s, w, i)

\* s.startswith(w), s.endswith(w)
StartsWith(s, w) == MatchAt(s, w, 1)
EndsWith(s, w) == MatchAt(s, w, Len(s) - Len(w) + 1)

Whitespace == {"\n", " "}

\* str.rstrip(): drop the trailing whitespace.
RECURSIVE rstrip(_)
rstrip(s) ==
    IF s # <<>> /\ s[Len(s)] \in Whitespace
    THEN rstrip(SubSeq(s, 1, Len(s) - 1))
    ELSE s

\* a < b on str: the first differing character decides, a proper prefix is less.
StrLess(a, b) ==
    \E i \in 1..(Len(b)) :
        /\ \A k \in 1..(i - 1) : k <= Len(a) /\ a[k] = b[k]
        /\ \/ i = Len(a) + 1
           \/ i <= Len(a) /\ Ord(a[i]) < Ord(b[i])

\* sorted() of a set of str.
RECURSIVE sorted(_)
sorted(S) ==
    IF S = {} THEN <<>>
    ELSE LET m == CHOOSE x \in S : \A y \in S : x = y \/ StrLess(x, y)
         IN  <<m>> \o sorted(S \ {m})

\* set(list)
SetOf(l) == {l[i] : i \in 1..Len(l)}

\* pathlib joinpath of a relative path below a directory.
joinpath(dir, rel) == IF rel = <<>> THEN dir ELSE dir \o <<"/">> \o rel

\* pathlib parent of a relative path: the path up to its last "/" ("" if none).
parent(p) ==
    LET slashes == {i \in 1..Len(p) : p[i] = "/"}
    IN  IF slashes = {} THEN <<>>
        ELSE SubSeq(p, 1, (CHOOSE i \in slashes : \A j \in slashes : j <= i) - 1)

----------------------------------------------------------------------------
\* The dependency catalog.

DEPS ==
    << <<"a", "s", "i", "o">>, <<"l", "i", "b", "m", "p", "q">>, <<"l", "i", "b", "s", "m", "a", "c", "k", "e", "r", "d", "e", "c">>, <<"l", "i", "b", "z", "t">>,
       <<"s", "d", "l", "_", "a", "u", "d", "i", "o", "l", "i", "b">>, <<"s", "i", "m", "p", "l", "e", "i", "n", "i">>, <<"u", "n", "o", "r", "d", "e", "r", "e", "d", "_", "d", "e", "n", "s", "e">> >>

ALWAYS_VENDORED_DEPS == << <<"a", "s", "i", "o">>, <<"l", "i", "b", "m", "p", "q">>, <<"l", "i", "b", "s", "m", "a", "c", "k", "e", "r", "d", "e", "c">>, <<"l", "i", "b", "z", "t">> >>

DEPS_NOT_VENDORED_BY_DEFAULT ==
    << <<"g", "o", "o", "g", "l", "e", "t", "e", "s", "t">>, <<"b", "e", "n", "c", "h", "m", "a", "r", "k">>, <<"s", "d", "l", "2">>, <<"s", "d", "l", "_", "i", "m", "a", "g", "e">>,
       <<"l", "i", "b", "p", "n", "g">>, <<"l", "i", "b", "f", "m", "t">>, <<"b", "z", "i", "p", "2">>, <<"l", "i", "b", "s", "o", "d", "i", "u", "m">> >>

ROOT_DIR == <<"/", "w">>
BUILD_DIR == joinpath(ROOT_DIR, <<"b", "u", "i", "l", "d", "-", "s", "r", "c", "-", "d", "i", "s", "t">>)
ARCHIVE_DIR == joinpath(BUILD_DIR, <<"a", "r", "c", "h", "i", "v", "e">>)

----------------------------------------------------------------------------
\* Version and Paths.

NoVersion == [prefix |-> <<>>, commit_sha |-> <<>>, str |-> <<>>]

Version_DashAlways(prefix, commit_sha) ==
    [prefix |-> prefix, commit_sha |-> commit_sha,
     str |-> prefix \o <<"-">> \o commit_sha]

\* Version.__init__
Version(prefix, commit_sha) ==
    [prefix |-> prefix, commit_sha |-> commit_sha,
     str |-> IF Contains(prefix, <<"-">>) THEN prefix \o <<"-">> \o commit_sha ELSE prefix]

\* Paths.__init__: archive_top_level_dir_name
archive_top_level_dir_name(version, fully_vendored) ==
    <<"d", "e", "v", "i", "l", "u", "t", "i", "o", "n", "x", "-", "s", "r", "c">> \o (IF fully_vendored THEN <<"-", "f", "u", "l", "l">> ELSE <<>>)
        \o <<"-">> \o version.str

\* Paths.__init__: dist_dir, relative to archive_top_level_dir
dist_dir == <<"d", "i", "s", "t">>

\* The outcome of open('VERSION').read(): the file is missing, or its content.
NoFile == <<"ENOENT">>

\* subprocess.run without check=: the executable is missing and run() raises,
\* or the process ran and returned an exit status and its stdout.
ProcOutcomes == {"ok", "nonzero", "notfound"}

\* subprocess.run raises only when the executable cannot be started; a
\* non-zero returncode is returned to the caller, who does not look at it.
subprocess_run_raises(outcome) == outcome = "notfound"

\* get_version(): the prefix is the stripped VERSION file, the commit is the
\* stripped stdout of `git rev-parse --short HEAD`.
get_version(file, git_stdout) == Version(rstrip(file), rstrip(git_stdout))

----------------------------------------------------------------------------
\* DependencySelector: configure flags, copy list, generated CMakeLists.txt.

Flag(name, value) == [name |-> name, value |-> value]

\* f'-DDEVILUTIONX_SYSTEM_{dep.upper()}=OFF'
SystemOffFlag(dep) == Flag(<<"D", "E", "V", "I", "L", "U", "T", "I", "O", "N", "X", "_", "S", "Y", "S", "T", "E", "M", "_">> \o upper(dep), <<"O", "F", "F">>)

\* [f(x) for x in l]
Map(l, f(_)) == [i \in 1..Len(l) |-> f(l[i])]

configure_args_NoDifference(fully_vendored) ==
    << Flag(<<"S">>, ROOT_DIR), Flag(<<"B">>, BUILD_DIR), Flag(<<"B", "U", "I", "L", "D", "_", "A", "S", "S", "E", "T", "S", "_", "M", "P", "Q">>, <<"O", "N">>) >>
    \o Map(sorted(SetOf(DEPS)), SystemOffFlag)
    \o (IF fully_vendored
        THEN Map(DEPS_NOT_VENDORED_BY_DEFAULT, SystemOffFlag)
             \o << Flag(<<"D", "I", "S", "C", "O", "R", "D", "_", "I", "N", "T", "E", "G", "R", "A", "T", "I", "O", "N">>, <<"O", "N">>) >>
        ELSE <<>>)

\* main(): the arguments of the cmake configure step.
configure_args_of(fully_vendored) ==
    << Flag(<<"S">>, ROOT_DIR), Flag(<<"B">>, BUILD_DIR), Flag(<<"B", "U", "I", "L", "D", "_", "A", "S", "S", "E", "T", "S", "_", "M", "P", "Q">>, <<"O", "N">>) >>
    \o Map(sorted(SetOf(DEPS) \ SetOf(ALWAYS_VENDORED_DEPS)), SystemOffFlag)
    \o (IF fully_vendored
        THEN Map(DEPS_NOT_VENDORED_BY_DEFAULT, SystemOffFlag)
             \o << Flag(<<"D", "I", "S", "C", "O", "R", "D", "_", "I", "N", "T", "E", "G", "R", "A", "T", "I", "O", "N">>, <<"O", "N">>) >>
        ELSE <<>>)

copy_list_DefaultOnly(fully_vendored) == DEPS

\* main(): the dependencies copied into dist.
copy_list(fully_vendored) ==
    DEPS \o (IF fully_vendored THEN DEPS_NOT_VENDORED_BY_DEFAULT ELSE <<>>)

Stmt(kind, name, value) == [kind |-> kind, name |-> name, value |-> value]

\* set(FETCHCONTENT_SOURCE_DIR_<DEP> "${CMAKE_CURRENT_SOURCE_DIR}/<dep>-src" ...):
\* the value is kept relative to CMAKE_CURRENT_SOURCE_DIR, the dist directory.
PinStmt(dep) == Stmt("pin", <<"F", "E", "T", "C", "H", "C", "O", "N", "T", "E", "N", "T", "_", "S", "O", "U", "R", "C", "E", "_", "D", "I", "R", "_">> \o upper(dep), dep \o <<"-", "s", "r", "c">>)

\* if(NOT DEFINED DEVILUTIONX_SYSTEM_<DEP>) set(DEVILUTIONX_SYSTEM_<DEP> OFF ...)
SystemOffUnlessDefined(dep) ==
    Stmt("set_unless_defined", <<"D", "E", "V", "I", "L", "U", "T", "I", "O", "N", "X", "_", "S", "Y", "S", "T", "E", "M", "_">> \o upper(dep), <<"O", "F", "F">>)

\* for dep in _DEPS_NOT_VENDORED_BY_DEFAULT: the pin, then the conditional.
RECURSIVE NotVendoredStmts(_)
NotVendoredStmts(l) ==
    IF l = <<>> THEN <<>>
    ELSE << PinStmt(Head(l)), SystemOffUnlessDefined(Head(l)) >> \o NotVendoredStmts(Tail(l))

\* write_dist_cmakelists: the statements written, in order.
write_dist_cmakelists(ver, fully_vendored) ==
    << Stmt("comment", <<"G", "e", "n", "e", "r", "a", "t", "e", "d">>, <<>>) >>
    \o (IF ver.commit_sha # <<>>
        THEN << Stmt("set", <<"G", "I", "T", "_", "C", "O", "M", "M", "I", "T", "_", "H", "A", "S", "H">>, ver.commit_sha) >> ELSE <<>>)
    \o << Stmt("set", <<"D", "E", "V", "I", "L", "U", "T", "I", "O", "N", "X", "_", "M", "P", "Q">>, <<"d", "e", "v", "i", "l", "u", "t", "i", "o", "n", "x", ".", "m", "p", "q">>) >>
    \o Map(DEPS, PinStmt)
    \o (IF fully_vendored
        THEN << Stmt("pin", <<"F", "E", "T", "C", "H", "C", "O", "N", "T", "E", "N", "T", "_", "S", "O", "U", "R", "C", "E", "_", "D", "I", "R", "_", "D", "I", "S", "C", "O", "R", "D", "S", "R", "C">>, <<"d", "i", "s", "c", "o", "r", "d", "s", "r", "c", "-", "s", "r", "c">>) >>
             \o NotVendoredStmts(DEPS_NOT_VENDORED_BY_DEFAULT)
        ELSE <<>>)

----------------------------------------------------------------------------
\* The staging tree below ARCHIVE_DIR: a set of entries, each a path relative
\* to ARCHIVE_DIR and the run that wrote it.

Entry(path, r) == [path |-> path, run |-> r]

Paths(tree) == {e.path : e \in tree}

\* Writing a file replaces what was at its path.
Put(tree, path, r) == {e \in tree : e.path # path} \cup {Entry(path, r)}

\* Path.mkdir(parents=True, exist_ok=True): the directory and its missing
\* ancestors are created; ARCHIVE_DIR itself ("") holds no entry.
RECURSIVE mkdir_parents(_, _, _)
mkdir_parents(tree, path, r) ==
    IF path = <<>> \/ path \in Paths(tree) THEN tree
    ELSE mkdir_parents(tree, parent(path), r) \cup {Entry(path, r)}

rmtree_Keep(tree) == tree

\* shutil.rmtree(_ARCHIVE_DIR)
rmtree(tree) == {}

\* re.search(r'(^|/)\.gitkeep$', src)
is_gitkeep(src) ==
    /\ EndsWith(src, <<".", "g", "i", "t", "k", "e", "e", "p">>)
    /\ \/ Len(src) = Len(<<".", "g", "i", "t", "k", "e", "e", "p">>)
       \/ src[Len(src) - Len(<<".", "g", "i", "t", "k", "e", "e", "p">>)] = "/"

\* The tracked files `git ls-files -z` lists.
TrackedFiles == << <<"V", "E", "R", "S", "I", "O", "N">>, <<"a", "/", ".", "g", "i", "t", "k", "e", "e", "p">>, <<"s", "/", "m", ".", "c">> >>

\* git('ls-files', '-z').rstrip(b'\0').split(b'\0'): no output splits into one
\* empty name.
ls_files(outcome) == IF outcome = "ok" THEN TrackedFiles ELSE << <<>> >>

\* The loop of main() over the tracked files, from the i-th on. `missing` is
\* the index of a listed file that is no longer on disk (0: none); copy2 raises
\* on it, and on the empty name, which is the repository directory itself.
RECURSIVE copy_repo_files(_, _, _, _, _, _)
copy_repo_files(tree, top, files, i, missing, r) ==
    IF i > Len(files) THEN [tree |-> tree, raised |-> FALSE]
    ELSE LET src == files[i]
             dst_path == joinpath(top, src)
             made == mkdir_parents(tree, parent(dst_path), r)
         IN  IF is_gitkeep(src)
             THEN copy_repo_files(made, top, files, i + 1, missing, r)
             ELSE IF i = missing \/ src = <<>>
             THEN [tree |-> made, raised |-> TRUE]
             ELSE copy_repo_files(Put(made, dst_path, r), top, files, i + 1, missing, r)

copy_mpq_raises_Never(present) == FALSE

\* shutil.copy(_BUILD_DIR.joinpath('devilutionx.mpq'), paths.dist_dir) raises
\* when the source file does not exist.
copy_mpq_raises(present) == ~present

\* make_archive(root_dir=_ARCHIVE_DIR, base_dir=archive_top_level_dir_name):
\* the entries at or below the top-level directory.
archive_members(tree, top) ==
    {e \in tree : e.path = top \/ StartsWith(e.path, top \o <<"/">>)}

----------------------------------------------------------------------------
\* The control flow of main().

main_VersionFirst ==
    << "parse_args", "get_version", "configure", "build", "rmtree", "copy_repo",
       "copy_mpq", "copy_deps", "write_cmakelists", "make_archive", "done" >>

\* The statements of main() in the order they are written.
main ==
    << "parse_args", "configure", "build", "rmtree", "get_version", "copy_repo",
       "copy_mpq", "copy_deps", "write_cmakelists", "make_archive", "done" >>

\* The statement that follows a statement of main().
Then(stage) == main[(CHOOSE i \in 1..Len(main) : main[i] = stage) + 1]

----------------------------------------------------------------------------
\* State.

VARIABLES
    pc,              \* main(): the statement to execute next
    run,             \* the number of the current run of main()
    fully_vendored,  \* args.fully_vendored
    configure_args,  \* the arguments of the configure step
    nonzero,         \* the external processes of this run that returned non-zero
    log,             \* the stages of this run entered so far, in order
    failed_at,       \* the stage whose exception ended this run ("" if none)
    mpq,             \* whether _BUILD_DIR/devilutionx.mpq exists
    archive_dir,     \* the staging tree below _ARCHIVE_DIR
    version,         \* the Version of this run
    dep_i,           \* the index into the copy list of the dependency copied next
    cmakelists,      \* the statements of dist/CMakeLists.txt written by this run
    archives,        \* the archives created: run, base name and members
    stdout,          \* what the runs printed on stdout
    v_pc, v_file, v_git, v_version,   \* SpecVersion: get_version on drawn inputs
    f_pc, f_root, f_dep, f_cur        \* SpecFilter: copytree below one dependency

pipeline_vars ==
    << pc, run, fully_vendored, configure_args, nonzero, log, failed_at, mpq,
       archive_dir, version, dep_i, cmakelists, archives, stdout >>
version_vars == << v_pc, v_file, v_git, v_version >>
filter_vars == << f_pc, f_root, f_dep, f_cur >>
vars == << pipeline_vars, version_vars, filter_vars >>

\* The state before main() is entered, on a build directory never used.
PipelineInit ==
    /\ pc = main[1]
    /\ run = 1
    /\ fully_vendored = FALSE
    /\ configure_args = <<>>
    /\ nonzero = {}
    /\ log = <<>>
    /\ failed_at = ""
    /\ mpq = FALSE
    /\ archive_dir = {}
    /\ version = NoVersion
    /\ dep_i = 0
    /\ cmakelists = <<>>
    /\ archives = {}
    /\ stdout = <<>>

VersionIdle == v_pc = "idle" /\ v_file = <<>> /\ v_git = <<>> /\ v_version = NoVersion
FilterIdle == f_pc = "idle" /\ f_root = <<>> /\ f_dep = <<>> /\ f_cur = <<>>

Init == PipelineInit /\ VersionIdle /\ FilterIdle

----------------------------------------------------------------------------
\* main(), one action per statement.

top == archive_top_level_dir_name(version, fully_vendored)

\* An exception leaves main(): the run ends where it is.
Raise(stage) ==
    /\ pc' = "failed"
    /\ failed_at' = stage

Returned(stage, outcome) ==
    nonzero' = IF outcome = "nonzero" THEN nonzero \cup {stage} ELSE nonzero

\* parser.parse_args() and the construction of configure_args.
ParseArgs ==
    /\ pc = main[1]
    /\ \E fv \in BOOLEAN :
        /\ fully_vendored' = fv
        /\ configure_args' = configure_args_of(fv)
    /\ pc' = Then("parse_args")
    /\ log' = Append(log, "parse_args")
    /\ UNCHANGED << run, nonzero, failed_at, mpq, archive_dir, version, dep_i,
                    cmakelists, archives, stdout >>
    /\ UNCHANGED << version_vars, filter_vars >>

\* cmake(*configure_args)
CmakeConfigure ==
    /\ pc = "configure"
    /\ log' = Append(log, "configure")
    /\ \E outcome \in ProcOutcomes :
        IF subprocess_run_raises(outcome)
        THEN Raise("configure") /\ UNCHANGED nonzero
        ELSE pc' = Then("configure") /\ Returned("configure", outcome) /\ UNCHANGED failed_at
    /\ UNCHANGED << run, fully_vendored, configure_args, mpq, archive_dir, version,
                    dep_i, cmakelists, archives, stdout >>
    /\ UNCHANGED << version_vars, filter_vars >>

\* cmake('--build', _BUILD_DIR, '--target', 'devilutionx_mpq'): a build that
\* returns non-zero leaves the artifact as it was; one that returns zero has
\* normally produced it.
CmakeBuild ==
    /\ pc = "build"
    /\ log' = Append(log, "build")
    /\ \E outcome \in ProcOutcomes :
        IF subprocess_run_raises(outcome)
        THEN Raise("build") /\ UNCHANGED << nonzero, mpq >>
        ELSE /\ pc' = Then("build")
             /\ Returned("build", outcome)
             /\ mpq' \in (IF outcome = "ok" THEN BOOLEAN ELSE {mpq})
             /\ UNCHANGED failed_at
    /\ UNCHANGED << run, fully_vendored, configure_args, archive_dir, version,
                    dep_i, cmakelists, archives, stdout >>
    /\ UNCHANGED << version_vars, filter_vars >>

\* if _ARCHIVE_DIR.exists(): shutil.rmtree(_ARCHIVE_DIR)
RemoveArchiveDir ==
    /\ pc = "rmtree"
    /\ log' = Append(log, "rmtree")
    /\ archive_dir' = IF archive_dir # {} THEN rmtree(archive_dir) ELSE archive_dir
    /\ pc' = Then("rmtree")
    /\ UNCHANGED << run, fully_vendored, configure_args, nonzero, failed_at, mpq,
                    version, dep_i, cmakelists, archives, stdout >>
    /\ UNCHANGED << version_vars, filter_vars >>

VersionFiles == {NoFile, <<"1", ".", "2", "\n">>, <<"1", "-", "b", "\n">>}
GitRevParseStdout(outcome) == IF outcome = "ok" THEN <<"a", "1", "\n">> ELSE <<>>

\* version = get_version(); paths = Paths(version, args.fully_vendored)
GetVersion ==
    /\ pc = "get_version"
    /\ log' = Append(log, "get_version")
    /\ \E file \in VersionFiles, outcome \in ProcOutcomes :
        IF file = NoFile
        THEN Raise("open_version") /\ UNCHANGED << nonzero, version >>
        ELSE IF subprocess_run_raises(outcome)
        THEN Raise("rev_parse") /\ UNCHANGED << nonzero, version >>
        ELSE /\ pc' = Then("get_version")
             /\ Returned("rev_parse", outcome)
             /\ version' = get_version(file, GitRevParseStdout(outcome))
             /\ UNCHANGED failed_at
    /\ UNCHANGED << run, fully_vendored, configure_args, mpq, archive_dir, dep_i,
                    cmakelists, archives, stdout >>
    /\ UNCHANGED << version_vars, filter_vars >>

\* for src_bytes in git('ls-files', '-z')...: the whole loop.
CopyRepoFiles ==
    /\ pc = "copy_repo"
    /\ log' = Append(log, "copy_repo")
    /\ \E outcome \in ProcOutcomes, missing \in 0..Len(TrackedFiles) :
        IF subprocess_run_raises(outcome)
        THEN Raise("ls_files") /\ UNCHANGED << nonzero, archive_dir >>
        ELSE LET got == copy_repo_files(archive_dir, top, ls_files(outcome), 1, missing, run)
             IN  /\ Returned("ls_files", outcome)
                 /\ archive_dir' = got.tree
                 /\ IF got.raised
                    THEN Raise("copy2")
                    ELSE pc' = Then("copy_repo") /\ UNCHANGED failed_at
    /\ UNCHANGED << run, fully_vendored, configure_args, mpq, version, dep_i,
                    cmakelists, archives, stdout >>
    /\ UNCHANGED << version_vars, filter_vars >>

\* paths.dist_dir.mkdir(parents=True); shutil.copy(devilutionx.mpq, dist_dir)
CopyMpq ==
    /\ pc = "copy_mpq"
    /\ log' = Append(log, "copy_mpq")
    /\ LET dist == joinpath(top, dist_dir)
       IN  IF dist \in Paths(archive_dir)
           THEN Raise("mkdir_dist") /\ UNCHANGED << archive_dir, dep_i >>
           ELSE IF copy_mpq_raises(mpq)
           THEN /\ Raise("copy_mpq")
                /\ archive_dir' = mkdir_parents(archive_dir, dist, run)
                /\ UNCHANGED dep_i
           ELSE /\ archive_dir' =
                     Put(mkdir_parents(archive_dir, dist, run),
                         joinpath(dist, <<"d", "e", "v", "i", "l", "u", "t", "i", "o", "n", "x", ".", "m", "p", "q">>), run)
                /\ dep_i' = 1
                /\ pc' = Then("copy_mpq")
                /\ UNCHANGED failed_at
    /\ UNCHANGED << run, fully_vendored, configure_args, nonzero, mpq, version,
                    cmakelists, archives, stdout >>
    /\ UNCHANGED << version_vars, filter_vars >>

\* One iteration of the loop over the copy list: shutil.copytree of
\* _deps/<dep>-src to dist/<dep>-src, which raises when the fetched tree is not
\* there. What copytree copies below the directory is the subject of SpecFilter.
CopyDep ==
    /\ pc = "copy_deps"
    /\ log' = IF dep_i = 1 THEN Append(log, "copy_deps") ELSE log
    /\ LET deps == copy_list(fully_vendored)
           dst == joinpath(joinpath(top, dist_dir), deps[dep_i] \o <<"-", "s", "r", "c">>)
       IN  \E fetched \in BOOLEAN :
            IF ~fetched
            THEN Raise("copytree") /\ UNCHANGED << archive_dir, dep_i >>
            ELSE /\ archive_dir' = Put(archive_dir, dst, run)
                 /\ dep_i' = dep_i + 1
                 /\ pc' = IF dep_i = Len(deps) THEN Then("copy_deps") ELSE "copy_deps"
                 /\ UNCHANGED failed_at
    /\ UNCHANGED << run, fully_vendored, configure_args, nonzero, mpq, version,
                    cmakelists, archives, stdout >>
    /\ UNCHANGED << version_vars, filter_vars >>

\* write_dist_cmakelists(paths, version, args.fully_vendored)
WriteDistCmakelists ==
    /\ pc = "write_cmakelists"
    /\ log' = Append(log, "write_cmakelists")
    /\ cmakelists' = write_dist_cmakelists(version, fully_vendored)
    /\ archive_dir' =
         Put(archive_dir, joinpath(joinpath(top, dist_dir), <<"C", "M", "a", "k", "e", "L", "i", "s", "t", "s", ".", "t", "x", "t">>), run)
    /\ pc' = Then("write_cmakelists")
    /\ UNCHANGED << run, fully_vendored, configure_args, nonzero, failed_at, mpq,
                    version, dep_i, archives, stdout >>
    /\ UNCHANGED << version_vars, filter_vars >>

\* print(make_archive(paths, args.fully_vendored)): shutil.make_archive raises
\* (disk full, permission denied) or returns the path that is printed.
MakeArchive ==
    /\ pc = "make_archive"
    /\ log' = Append(log, "make_archive")
    /\ \E written \in BOOLEAN :
        IF ~written
        THEN Raise("make_archive") /\ UNCHANGED << archives, stdout >>
        ELSE /\ archives' = {a \in archives : a.name # top}
                  \cup {[run |-> run, name |-> top, members |-> archive_members(archive_dir, top)]}
             /\ stdout' = Append(stdout, [run |-> run, path |-> joinpath(BUILD_DIR, top \o <<".", "t", "a", "r", ".", "x", "z">>)])
             /\ pc' = Then("make_archive")
             /\ UNCHANGED failed_at
    /\ UNCHANGED << run, fully_vendored, configure_args, nonzero, mpq, archive_dir,
                    version, dep_i, cmakelists >>
    /\ UNCHANGED << version_vars, filter_vars >>

\* The script is run again on the same build directory: the files stay, the
\* process state starts afresh.
NewRun ==
    /\ pc \in {"done", "failed"}
    /\ run < MaxRuns
    /\ run' = run + 1
    /\ pc' = main[1]
    /\ fully_vendored' = FALSE
    /\ configure_args' = <<>>
    /\ nonzero' = {}
    /\ log' = <<>>
    /\ failed_at' = ""
    /\ version' = NoVersion
    /\ dep_i' = 0
    /\ cmakelists' = <<>>
    /\ UNCHANGED << mpq, archive_dir, archives, stdout >>
    /\ UNCHANGED << version_vars, filter_vars >>

Next ==
    \/ ParseArgs
    \/ CmakeConfigure
    \/ CmakeBuild
    \/ RemoveArchiveDir
    \/ GetVersion
    \/ CopyRepoFiles
    \/ CopyMpq
    \/ CopyDep
    \/ WriteDistCmakelists
    \/ MakeArchive
    \/ NewRun

Spec == Init /\ [][Next]_vars

----------------------------------------------------------------------------
\* SpecVersion: get_version() applied to a drawn VERSION file and a drawn
\* stdout of `git rev-parse --short HEAD`.

VersionAlphabet == {"1", "-", "\n"}

\* The str over VersionAlphabet of length at most n.
RECURSIVE StrsUpTo(_)
StrsUpTo(n) ==
    IF n = 0 THEN {<<>>}
    ELSE LET shorter == StrsUpTo(n - 1)
         IN  shorter \cup {Append(s, c) : s \in shorter, c \in VersionAlphabet}

\* No identifier (git failed, its stdout is empty), or a short hash and a newline.
RevParseStdouts == {<<>>, <<"a", "1", "\n">>}

InitVersion ==
    /\ PipelineInit
    /\ FilterIdle
    /\ v_pc = "start"
    /\ v_file \in StrsUpTo(MaxVersionLen) \cup {NoFile}
    /\ v_git \in RevParseStdouts
    /\ v_version = NoVersion

\* open('VERSION', 'r') raises: there is no such file.
OpenVersionRaises ==
    /\ v_pc = "start"
    /\ v_file = NoFile
    /\ v_pc' = "raised"
    /\ UNCHANGED << v_file, v_git, v_version, pipeline_vars, filter_vars >>

\* get_version() returns.
ResolveVersion ==
    /\ v_pc = "start"
    /\ v_file # NoFile
    /\ v_version' = get_version(v_file, v_git)
    /\ v_pc' = "resolved"
    /\ UNCHANGED << v_file, v_git, pipeline_vars, filter_vars >>

NextVersion == OpenVersionRaises \/ ResolveVersion

SpecVersion == InitVersion /\ [][NextVersion]_vars

----------------------------------------------------------------------------
\* SpecFilter: shutil.copytree(src=_BUILD_DIR/_deps/<dep>-src, ignore=ignore_dep_src)
\* walking down one dependency tree of a repository located at f_root.

\* tests?|other|vcx?proj|examples?|doxygen|docs?|asio-src/asio/src
IGNORE_DEP_DIR_WORDS ==
    { <<"t", "e", "s", "t">>, <<"t", "e", "s", "t", "s">>, <<"o", "t", "h", "e", "r">>, <<"v", "c", "p", "r", "o", "j">>, <<"v", "c", "x", "p", "r", "o", "j">>, <<"e", "x", "a", "m", "p", "l", "e">>, <<"e", "x", "a", "m", "p", "l", "e", "s">>,
      <<"d", "o", "x", "y", "g", "e", "n">>, <<"d", "o", "c">>, <<"d", "o", "c", "s">>, <<"a", "s", "i", "o", "-", "s", "r", "c", "/", "a", "s", "i", "o", "/", "s", "r", "c">> }

\* _IGNORE_DEP_DIR_RE.search(s):
\* (/|^)\.|(/|^)(tests?|other|...|asio-src/asio/src)(/|$)
IGNORE_DEP_DIR_RE(s) ==
    \E i \in 1..Len(s) :
        /\ i = 1 \/ s[i - 1] = "/"
        /\ \/ s[i] = "."
           \/ \E w \in IGNORE_DEP_DIR_WORDS :
                /\ MatchAt(s, w, i)
                /\ i + Len(w) = Len(s) + 1 \/ s[i + Len(w)] = "/"

\* _IGNORE_DEP_FILE_RE.search(s):
\* (^\.|Makefile|vcx?proj|example|doxygen|docs?|\.(doxy|cmd|png|html|ico|icns)$)
IGNORE_DEP_FILE_RE(s) ==
    \/ StartsWith(s, <<".">>)
    \/ \E w \in { <<"M", "a", "k", "e", "f", "i", "l", "e">>, <<"v", "c", "p", "r", "o", "j">>, <<"v", "c", "x", "p", "r", "o", "j">>, <<"e", "x", "a", "m", "p", "l", "e">>, <<"d", "o", "x", "y", "g", "e", "n">>, <<"d", "o", "c">>, <<"d", "o", "c", "s">> } :
         Contains(s, w)
    \/ \E x \in { <<".", "d", "o", "x", "y">>, <<".", "c", "m", "d">>, <<".", "p", "n", "g">>, <<".", "h", "t", "m", "l">>, <<".", "i", "c", "o">>, <<".", "i", "c", "n", "s">> } :
         EndsWith(s, x)

ignore_dep_src_KeepAll(src, names) ==
    IF Contains(src, <<"s", "d", "l", "_", "a", "u", "d", "i", "o", "l", "i", "b">>)
    THEN {}
    ELSE IF IGNORE_DEP_DIR_RE(src)
    THEN names
    ELSE {name \in names : IGNORE_DEP_FILE_RE(name) \/ IGNORE_DEP_DIR_RE(name)}

\* ignore_dep_src(src, names): the names copytree must not copy from directory src.
ignore_dep_src(src, names) ==
    IF Contains(src, <<"s", "d", "l", "_", "a", "u", "d", "i", "o", "l", "i", "b">>)
    THEN {name \in names : EndsWith(src, <<"/", "s", "d", "l", "_", "a", "u", "d", "i", "o", "l", "i", "b", "-", "s", "r", "c", "/", "3", "r", "d", "p", "a", "r", "t", "y", "/", "f", "m", "t">>)}
    ELSE IF IGNORE_DEP_DIR_RE(src)
    THEN names
    ELSE {name \in names : IGNORE_DEP_FILE_RE(name) \/ IGNORE_DEP_DIR_RE(name)}

\* Where the repository may be checked out.
RootDirs == { <<"/", "w">>, <<"/", ".", "c", "/", "w">>, <<"/", "d", "o", "c", "/", "w">> }

\* The entries every directory of the walked tree holds.
Names == { <<"s", "r", "c">>, <<"d", "o", "c">>, <<"3", "r", "d", "p", "a", "r", "t", "y">>, <<"f", "m", "t">>, <<"a", "s", "i", "o">>, <<".", "g", "i", "t">>, <<"m", ".", "c">> }

\* The directory copytree is in: the components f_cur below <dep>-src below
\* _ROOT_DIR/build-src-dist/_deps.
RECURSIVE JoinAll(_, _)
JoinAll(dir, comps) ==
    IF comps = <<>> THEN dir ELSE JoinAll(joinpath(dir, Head(comps)), Tail(comps))

DepSrc(root, dep) ==
    joinpath(joinpath(joinpath(root, <<"b", "u", "i", "l", "d", "-", "s", "r", "c", "-", "d", "i", "s", "t">>), <<"_", "d", "e", "p", "s">>), dep \o <<"-", "s", "r", "c">>)

CurSrc == JoinAll(DepSrc(f_root, f_dep), f_cur)

\* The names copytree skips in the current directory.
Ignored == ignore_dep_src(CurSrc, Names)

InitFilter ==
    /\ PipelineInit
    /\ VersionIdle
    /\ f_pc = "walk"
    /\ f_root \in RootDirs
    /\ f_dep \in SetOf(DEPS \o DEPS_NOT_VENDORED_BY_DEFAULT)
    /\ f_cur = <<>>

\* copytree recurses into an entry of the current directory that the ignore
\* callback did not name.
Descend ==
    /\ f_pc = "walk"
    /\ Len(f_cur) < MaxDepth
    /\ \E name \in Names \ Ignored : f_cur' = Append(f_cur, name)
    /\ UNCHANGED << f_pc, f_root, f_dep, pipeline_vars, version_vars >>

NextFilter == Descend

SpecFilter == InitFilter /\ [][NextFilter]_vars

----------------------------------------------------------------------------
\* Properties of the pipeline (Spec).

Stages == SetOf(log)

\* The position of a stage in this run's log, 0 when it was not entered.
Pos(stage) == IF stage \in Stages THEN CHOOSE i \in 1..Len(log) : log[i] = stage ELSE 0

Before(a, b) == Pos(a) # 0 /\ Pos(b) # 0 /\ Pos(a) < Pos(b)

ThisRun(tree) == {e \in tree : e.run = run}

DistPath(name) == joinpath(joinpath(top, dist_dir), name)

\* C1: if the cmake configure step, the cmake build or the git revision lookup
\* returns a non-zero exit status, the run fails at that point: it is in its
\* failed state and has entered no later stage.
C1_NonZeroExitIsFatal ==
    \A p \in nonzero \cap {"configure", "build", "rev_parse"} :
        /\ pc = "failed"
        /\ failed_at = p

\* C2: if devilutionx.mpq is absent from the build directory after the build
\* step has returned, the run fails at the copy of the artifact: it never gets
\* to the dependency copy, writes no CMakeLists.txt, creates no archive and
\* prints no archive path.
C2_MissingMpqIsFatal ==
    ("rmtree" \in Stages \/ pc = "rmtree") /\ ~mpq =>
        /\ pc \notin {"copy_deps", "write_cmakelists", "make_archive", "done"}
        /\ "copy_mpq" \in Stages => pc = "failed" /\ failed_at \in {"copy_mpq", "mkdir_dist"}
        /\ cmakelists = <<>>
        /\ DistPath(<<"C", "M", "a", "k", "e", "L", "i", "s", "t", "s", ".", "t", "x", "t">>) \notin Paths(ThisRun(archive_dir))
        /\ \A a \in archives : a.run # run
        /\ \A i \in 1..Len(stdout) : stdout[i].run # run

\* The build returned zero, the artifact is not there, and the run has failed
\* at the copy of it.
C2_Witness ==
    /\ pc = "failed"
    /\ failed_at = "copy_mpq"
    /\ ~mpq
    /\ "build" \notin nonzero

AllDeps == SetOf(DEPS) \cup SetOf(DEPS_NOT_VENDORED_BY_DEFAULT)

\* The dependencies whose system copy must be disabled in a mode.
MustDisable(fv) ==
    (SetOf(DEPS) \ SetOf(ALWAYS_VENDORED_DEPS))
        \cup (IF fv THEN SetOf(DEPS_NOT_VENDORED_BY_DEFAULT) ELSE {})

\* The DEVILUTIONX_SYSTEM_<DEP>=OFF flags among the configure arguments.
SystemOffFlags ==
    SelectSeq(configure_args,
              LAMBDA f : StartsWith(f.name, <<"D", "E", "V", "I", "L", "U", "T", "I", "O", "N", "X", "_", "S", "Y", "S", "T", "E", "M", "_">>) /\ f.value = <<"O", "F", "F">>)

\* For each disabling flag, in order, the dependencies it is the flag of.
FlagDeps ==
    LET flags == SystemOffFlags
    IN  [i \in 1..Len(flags) |-> {d \in AllDeps : SystemOffFlag(d) = flags[i]}]

OnePerDep(D, fv) ==
    /\ Len(D) = Cardinality(MustDisable(fv))
    /\ \A d \in MustDisable(fv) : \E i \in 1..Len(D) : d \in D[i]

SortedBetween(D, lo, hi) ==
    \A i, j \in lo..hi :
        i < j => \A a \in D[i], b \in D[j] : StrLess(a, b)

\* C3 as stated: in both modes, when the configure step is about to be run with
\* them, the disabling flags are sorted by dependency name and there is exactly
\* one for each dependency whose system copy must be disabled.
C3_FlagsSortedOnePerDep ==
    pc = Then("parse_args") =>
        LET D == FlagDeps
        IN  /\ OnePerDep(D, fully_vendored)
            /\ SortedBetween(D, 1, Len(D))

NumDefault == Cardinality(SetOf(DEPS) \ SetOf(ALWAYS_VENDORED_DEPS))

\* C3 amended: when the configure step is about to be run with them, there is
\* exactly one disabling flag per dependency whose system copy must be
\* disabled; those of the default set come first, sorted by dependency name;
\* in fully-vendored mode those of the fully-vendored-only set follow them in
\* the order of the catalog.
C3_FlagsSortedThenCatalogOrder ==
    pc = Then("parse_args") =>
        LET D == FlagDeps
        IN  /\ OnePerDep(D, fully_vendored)
            /\ SortedBetween(D, 1, NumDefault)
            /\ \A i \in 1..NumDefault : D[i] \subseteq SetOf(DEPS)
            /\ \A k \in 1..(Len(D) - NumDefault) :
                 D[NumDefault + k] = {DEPS_NOT_VENDORED_BY_DEFAULT[k]}

\* The configure arguments of a fully-vendored run have been built.
C3_Witness ==
    /\ fully_vendored
    /\ pc = Then("parse_args")
    /\ Len(SystemOffFlags) > NumDefault

\* The dependencies whose directory this run has copied into dist.
CopiedDeps == {d \in AllDeps : DistPath(d \o <<"-", "s", "r", "c">>) \in Paths(ThisRun(archive_dir))}

CopyLoopDone == pc \in {"write_cmakelists", "make_archive", "done"}

\* C4: once the copy loop is through, every always-vendored dependency has been
\* copied into dist, and a dependency of the fully-vendored-only set has been
\* copied if and only if the mode is fully vendored.
C4_CopyListByMode ==
    CopyLoopDone =>
        /\ SetOf(ALWAYS_VENDORED_DEPS) \subseteq CopiedDeps
        /\ \A d \in SetOf(DEPS_NOT_VENDORED_BY_DEFAULT) : d \in CopiedDeps <=> fully_vendored

\* A fully-vendored run has copied all its dependencies.
C4_Witness ==
    /\ CopyLoopDone
    /\ fully_vendored
    /\ <<"l", "i", "b", "s", "o", "d", "i", "u", "m">> \in CopiedDeps
    /\ <<"a", "s", "i", "o">> \in CopiedDeps

\* C6: while a run has staged entries in the staging tree, the tree holds no
\* entry of another run, and the members of every archive were all written by
\* the run that created it.
C6_StagingOnlyThisRun ==
    /\ ThisRun(archive_dir) # {} => archive_dir = ThisRun(archive_dir)
    /\ \A a \in archives : \A e \in a.members : e.run = a.run

\* A second run has created its archive after a first run had created one.
C6_Witness ==
    /\ run = 2
    /\ pc = "done"
    /\ Len(stdout) = 2
    /\ \E a \in archives : a.run = 2 /\ a.members # {}

\* C7 as stated: the version is resolved before the build is invoked, the build
\* before the previous staging tree is destroyed, and that before repository
\* files are staged; a missing version file aborts the run before the build
\* and before the previous staging tree is deleted.
C7_VersionBeforeBuild ==
    /\ "build" \in Stages => Before("get_version", "build")
    /\ "rmtree" \in Stages => Before("build", "rmtree")
    /\ "copy_repo" \in Stages => Before("rmtree", "copy_repo")
    /\ failed_at = "open_version" => "build" \notin Stages /\ "rmtree" \notin Stages

\* C7 amended: the build is invoked before the previous staging tree is
\* destroyed, that before the version is resolved, and the version before
\* repository files are staged; a missing version file aborts the run after the
\* build and after the previous staging tree is gone, with nothing staged.
C7_BuildRmtreeVersionRepo ==
    /\ "rmtree" \in Stages => Before("build", "rmtree")
    /\ "get_version" \in Stages => Before("rmtree", "get_version")
    /\ "copy_repo" \in Stages => Before("get_version", "copy_repo")
    /\ ThisRun(archive_dir) # {} => "copy_repo" \in Stages
    /\ version # NoVersion => "get_version" \in Stages
    /\ failed_at = "open_version" =>
         /\ Before("build", "rmtree")
         /\ "copy_repo" \notin Stages
         /\ archive_dir = {}

\* A second run, after a run that printed an archive path, finds no version file.
C7_Witness ==
    /\ run = 2
    /\ failed_at = "open_version"
    /\ Len(stdout) = 1

\* The <name>-src directories the pins of this run's CMakeLists.txt point at.
PinnedDirs == {DistPath(cmakelists[i].value) : i \in {k \in 1..Len(cmakelists) : cmakelists[k].kind = "pin"}}

\* The <name>-src directories this run has staged in dist.
StagedDepDirs ==
    {p \in Paths(ThisRun(archive_dir)) :
        StartsWith(p, DistPath(<<>>) \o <<"/">>) /\ EndsWith(p, <<"-", "s", "r", "c">>)}

\* C10: once CMakeLists.txt is written, the directories its
\* FETCHCONTENT_SOURCE_DIR_<NAME> statements point at are exactly the dependency
\* directories the run copied into dist.
C10_PinsEqualStaged ==
    pc \in {"make_archive", "done"} => PinnedDirs = StagedDepDirs

----------------------------------------------------------------------------
\* Properties of get_version (SpecVersion).

\* C5 as stated: with no revision identifier, resolution does not fail and the
\* display string equals the prefix, whether or not the prefix has a "-".
C5_EmptyShaDisplayIsPrefix ==
    /\ v_file # NoFile => v_pc # "raised"
    /\ v_pc = "resolved" /\ v_version.commit_sha = <<>> => v_version.str = v_version.prefix

\* C5 amended: with no revision identifier, resolution does not fail; the
\* display string equals the prefix when the prefix has no "-", and is the
\* prefix followed by "-" when it has one.
C5_EmptyShaDisplay ==
    /\ v_file # NoFile => v_pc # "raised"
    /\ v_pc = "resolved" /\ v_version.commit_sha = <<>> =>
         /\ v_version.prefix = rstrip(v_file)
         /\ "-" \notin SetOf(v_version.prefix) => v_version.str = v_version.prefix
         /\ "-" \in SetOf(v_version.prefix) => v_version.str = Append(v_version.prefix, "-")

\* A prefix with a "-" has been resolved with no revision identifier.
C5_Witness ==
    /\ v_pc = "resolved"
    /\ v_git = <<>>
    /\ v_version.prefix = <<"1", "-", "1">>

----------------------------------------------------------------------------
\* Properties of ignore_dep_src under copytree (SpecFilter).

FmtDir == << <<"3", "r", "d", "p", "a", "r", "t", "y">>, <<"f", "m", "t">> >>

ExcludedDirNames ==
    { <<"t", "e", "s", "t">>, <<"t", "e", "s", "t", "s">>, <<"o", "t", "h", "e", "r">>, <<"v", "c", "p", "r", "o", "j">>, <<"v", "c", "x", "p", "r", "o", "j">>, <<"e", "x", "a", "m", "p", "l", "e", "s">>, <<"e", "x", "a", "m", "p", "l", "e">>,
      <<"d", "o", "x", "y", "g", "e", "n">>, <<"d", "o", "c", "s">>, <<"d", "o", "c">> }

\* A component of the path below <dep>-src is dot-prefixed or a listed name.
HasExcludedComponent(comps) ==
    \E i \in 1..Len(comps) : comps[i][1] = "." \/ comps[i] \in ExcludedDirNames

\* The one documentation subtree of asio the directory rule names.
AsioDocSubtree == f_dep = <<"a", "s", "i", "o">> /\ Len(f_cur) >= 2 /\ SubSeq(f_cur, 1, 2) = << <<"a", "s", "i", "o">>, <<"s", "r", "c">> >>

\* C9: a directory copytree is in is pruned (all its entries are ignored) when a
\* component of its path in the dependency tree is excluded, save
\* sdl_audiolib-src/3rdparty/fmt; and when no component is excluded its entry
\* src is copied, wherever the repository is located.
C9_PruneByTreePathOnly ==
    f_pc = "walk" =>
        /\ HasExcludedComponent(f_cur) /\ ~(f_dep = <<"s", "d", "l", "_", "a", "u", "d", "i", "o", "l", "i", "b">> /\ f_cur = FmtDir)
             => Ignored = Names
        /\ ~HasExcludedComponent(f_cur) /\ ~AsioDocSubtree /\ ~(f_dep = <<"s", "d", "l", "_", "a", "u", "d", "i", "o", "l", "i", "b">> /\ f_cur = FmtDir)
             => <<"s", "r", "c">> \notin Ignored

====
